---- MODULE Spec2Model ----
(***************************************************************************)
(* A model of mat_file_tools.py: load_data / get_variable_list on the     *)
(* HDF5 (version 7.3) path, and the recursive decoders __data_to_dict and *)
(* __cell_to_list, as a call-stack machine.  Python values are tagged     *)
(* records; the numpy calls the code makes (squeeze, tolist, item, shape, *)
(* prod, reshape) are operators that compute what numpy computes.         *)
(***************************************************************************)
EXTENDS Integers, Sequences, FiniteSets, TLC

(***************************************************************************)
(* Python values.  Every payload is a sequence of records, so that two    *)
(* values of different kinds can always be compared.                      *)
(***************************************************************************)
Num(n) == [t |-> "num", v |-> <<[n |-> n]>>]
Str(codes) == [t |-> "str", v |-> [i \in 1..Len(codes) |-> [n |-> codes[i]]]]
List(s) == [t |-> "list", v |-> s]
Dict(pairs) == [t |-> "dict", v |-> pairs]
Pair(key, val) == [k |-> key, val |-> val]
NoValue == [t |-> "unset", v |-> <<>>]

IsList(val) == val.t = "list"

Prod(s) == LET RECURSIVE P(_)
               P(i) == IF i > Len(s) THEN 1 ELSE s[i] * P(i + 1)
           IN P(1)

Reverse(s) == [i \in 1..Len(s) |-> s[Len(s) + 1 - i]]

Tail0(s) == IF Len(s) = 0 THEN <<>> ELSE Tail(s)

RECURSIVE Concat(_)
Concat(ss) == IF Len(ss) = 0 THEN <<>> ELSE Head(ss) \o Concat(Tail(ss))

(***************************************************************************)
(* numpy.  An ndarray is [shape, flat]: its shape and its elements in C   *)
(* (row-major) order.                                                      *)
(***************************************************************************)
Array(shape, flat) == [shape |-> shape, flat |-> flat]

\* ndarray.squeeze(): the dimensions of size 1 are dropped.
Squeeze(a) == Array(SelectSeq(a.shape, LAMBDA d : d # 1), a.flat)

\* ndarray.tolist(): nested lists, one level per dimension.
RECURSIVE Nest(_, _)
Nest(shape, flat) ==
    IF Len(shape) = 0 THEN flat[1]
    ELSE LET stride == Prod(Tail(shape))
         IN List([i \in 1..shape[1] |->
                    Nest(Tail(shape), SubSeq(flat, (i - 1) * stride + 1, i * stride))])

ToList(a) == Nest(a.shape, a.flat)

\* ndarray.item(): the one element of an array of size 1.
Item(a) == a.flat[1]

\* __ndarray2list(data_in)
Ndarray2List(a) == IF Len(a.shape) # 0 THEN ToList(a) ELSE Item(a)

\* numpy's limit on the number of dimensions (NPY_MAXDIMS).
NpyMaxDims == 32

\* The number of leading dimensions on which two shapes agree.
Agree(d1, d2) ==
    LET same == {j \in 0..Len(d2) : j <= Len(d1) /\ \A h \in 1..j : d2[h] = d1[h]}
    IN CHOOSE j \in same : \A h \in same : h <= j

\* numpy's discover_dimensions: the shape numpy gives a nested list.  The
\* dimensions of the first element are kept as far as every later element
\* agrees with them, each element being looked into no deeper than the
\* elements before it allow; obj says that dimensions were cut (a ragged
\* list becomes an array of objects).  Strings and dicts are scalars.
\* (Intermediate results are bound with \in, which computes each once.)
RECURSIVE Discover(_, _)
Discover(val, maxnd) ==
    IF maxnd = 0 \/ ~IsList(val) THEN [d |-> <<>>, obj |-> FALSE]
    ELSE IF Len(val.v) = 0 \/ maxnd = 1 THEN [d |-> <<Len(val.v)>>, obj |-> FALSE]
    ELSE LET RECURSIVE Scan(_, _, _)
             Scan(i, first, acc) ==
                 IF i > Len(val.v)
                 THEN [d |-> <<Len(val.v)>> \o SubSeq(first.d, 1, acc.m),
                       obj |-> acc.obj \/ acc.m < Len(first.d)]
                 ELSE CHOOSE r \in
                        {Scan(i + 1, first, a) :
                           a \in {[m |-> Agree(first.d, di.d), obj |-> acc.obj \/ di.obj] :
                                    di \in {Discover(val.v[i], acc.m)}}} : TRUE
         IN CHOOSE r \in
              {Scan(2, f, a) :
                 <<f, a>> \in {<<g, [m |-> Len(g.d), obj |-> g.obj]>> :
                                 g \in {Discover(val.v[1], maxnd - 1)}}} : TRUE

\* The elements of a nested list at depth nd, in order.
RECURSIVE Elems(_, _)
Elems(val, nd) ==
    IF nd = 0 THEN <<val>>
    ELSE Concat([i \in 1..Len(val.v) |-> Elems(val.v[i], nd - 1)])

\* The kinds of the leaves numpy finds when it looks for a common dtype.
RECURSIVE LeafKinds(_)
LeafKinds(val) ==
    IF IsList(val) THEN UNION {LeafKinds(val.v[i]) : i \in 1..Len(val.v)}
    ELSE {val.t}

Dtype(val, obj) ==
    IF obj \/ "dict" \in LeafKinds(val) THEN "object"
    ELSE IF "str" \in LeafKinds(val) THEN "str"
    ELSE "num"

\* repr of a float with an integral value below 10: "n.0".
Repr(n) == <<48 + n, 46, 48>>

\* What an element becomes when it is stored in an array of the dtype.
Coerce(dtype, e) ==
    IF dtype # "str" THEN e
    ELSE IF e.t = "num" THEN Str(Repr(e.v[1].n))
    ELSE IF IsList(e) THEN Str(<<91, 93>>)
    ELSE e

SeqError == "ValueError: setting an array element with a sequence"

\* numpy.asarray(val): the outcomes the conversion can have.  A list left
\* at an element's place cannot be stored unless the dtype is object; an
\* empty list under a string dtype is stored as "[]" by some numpy
\* versions and refused by others.
Converted(dims, dt, es) ==
    LET ok == [err |-> "", a |-> Array(dims, [i \in 1..Len(es) |-> Coerce(dt, es[i])])]
        bad == [err |-> SeqError, a |-> Array(<<>>, <<>>)]
        lists == {i \in 1..Len(es) : IsList(es[i])}
    IN IF dt = "object" \/ lists = {} THEN {ok}
       ELSE IF dt = "num" \/ \E i \in lists : Len(es[i].v) > 0 THEN {bad}
       ELSE {ok, bad}

AsArray(val) ==
    UNION {Converted(dd.d, dt, es) :
             <<dd, dt, es>> \in {<<f, Dtype(val, f.obj), Elems(val, Len(f.d))>> :
                                   f \in {Discover(val, NpyMaxDims)}}}

\* numpy.reshape(a, shape) followed by squeeze().
ReshapeSqueeze(a, shape) == Squeeze(Array(shape, a.flat))

(***************************************************************************)
(* The HDF5 file.  A node is a Group (named children), a Dataset (shape,  *)
(* element kind, attributes, buffer in C order) or a committed Datatype,  *)
(* which h5py hands out as an object that is neither.  Names are          *)
(* sequences of characters.  An object reference is the id of the node it *)
(* points at; NullRef points at nothing.                                   *)
(***************************************************************************)
VARIABLES file, variables,
          pc, handles, h_keys, keys_sel, idx, data, error, stack,
          calls, obs

vars == <<file, variables, pc, handles, h_keys, keys_sel, idx, data, error,
          stack, calls, obs>>

NameX == <<"x">>
NameC == <<"c">>
NameRefs == <<"#", "r", "e", "f", "s", "#">>
NameF == <<"f">>
NameG == <<"g">>
NameQ == <<"q">>

Group(children) ==
    [kind |-> "Group", children |-> children, shape |-> <<>>,
     object |-> FALSE, int_decode |-> FALSE, buf |-> <<>>]
Dataset(shape, object, int_decode, buf) ==
    [kind |-> "Dataset", children |-> <<>>, shape |-> shape,
     object |-> object, int_decode |-> int_decode, buf |-> buf]
Datatype ==
    [kind |-> "Datatype", children |-> <<>>, shape |-> <<>>,
     object |-> FALSE, int_decode |-> FALSE, buf |-> <<>>]
Child(name, id) == [k |-> name, id |-> id]

NullRef == "null"

\* The nodes MATLAB keeps under '#refs#', the targets of references:
\*   scalar  a 1x1 double            row     a 1x2 double
\*   text    the char array 'ab'     empty   an empty matrix (rank 1)
\*   struct  a struct, two fields     type    a committed datatype
\*   cell    a cell {'ab', 'ab'}     cycle   a cell that holds itself
\*   charmat a 2x1 char array        badstruct  a group holding a datatype
PoolIds == <<"scalar", "row", "text", "empty", "struct", "type", "cell",
             "cycle", "charmat", "badstruct">>

PoolNode(id) ==
    CASE id = "scalar" -> Dataset(<<1, 1>>, FALSE, FALSE, <<5>>)
      [] id = "row" -> Dataset(<<2, 1>>, FALSE, FALSE, <<1, 2>>)
      [] id = "text" -> Dataset(<<2, 1>>, FALSE, TRUE, <<97, 98>>)
      [] id = "empty" -> Dataset(<<2>>, FALSE, FALSE, <<0, 0>>)
      [] id = "struct" -> Group(<<Child(NameF, "scalar"), Child(NameG, "text")>>)
      [] id = "type" -> Datatype
      [] id = "cell" -> Dataset(<<2, 1>>, TRUE, FALSE, <<"text", "text">>)
      [] id = "cycle" -> Dataset(<<1, 1>>, TRUE, FALSE, <<"cycle">>)
      [] id = "charmat" -> Dataset(<<1, 2>>, FALSE, TRUE, <<97, 98>>)
      [] id = "badstruct" -> Group(<<Child(NameF, "type")>>)

Range(s) == {s[i] : i \in 1..Len(s)}

RefTargets == {NullRef} \cup Range(PoolIds)

Node(id) ==
    IF id \in Range(PoolIds) THEN PoolNode(id)
    ELSE IF id = "root"
      THEN Group(<<Child(NameRefs, "refs"), Child(NameC, "c"), Child(NameX, "x")>>)
    ELSE IF id = "refs"
      THEN Group([i \in 1..Len(PoolIds) |-> Child(<<"r", PoolIds[i]>>, PoolIds[i])])
    ELSE IF id = "x"
      THEN Dataset(file.xShape, FALSE, FALSE, [i \in 1..Prod(file.xShape) |-> i])
    ELSE IF id = "c"
      THEN Dataset(file.cShape, TRUE, FALSE, file.cBuf)
    ELSE Datatype

(***************************************************************************)
(* Bounds of the model, and the files and selections load_data is given.  *)
(***************************************************************************)
MaxRank == 3
MaxDim == 3
MaxRefs == 2
MaxFrames == 12

Shapes(maxrank, maxdim) ==
    UNION {[1..r -> 1..maxdim] : r \in 1..maxrank}

\* The shapes of numeric datasets; a dimension may be empty.
NumShapes == UNION {[1..r -> 0..MaxDim] : r \in 1..MaxRank}

CellShapes == {s \in Shapes(MaxRank, MaxRefs) : Prod(s) <= MaxRefs}

\* Larger cell arrays, of strings and structs only.
WideShapes == [1..2 -> 2..MaxDim]
WideBufs(shape) ==
    {[i \in 1..Prod(shape) |-> "text"],
     [i \in 1..Prod(shape) |-> "struct"],
     [i \in 1..Prod(shape) |-> IF i % 2 = 1 THEN "text" ELSE "struct"]}

File(xShape, cShape, cBuf) == [xShape |-> xShape, cShape |-> cShape, cBuf |-> cBuf]

None == [none |-> TRUE, names |-> <<>>]
Names(list) == [none |-> FALSE, names |-> list]

Selections ==
    {None, Names(<<>>), Names(<<NameX>>), Names(<<NameC>>),
     Names(<<NameC, NameX>>), Names(<<NameX, NameQ>>), Names(<<NameRefs, NameC>>)}

Inputs ==
    {[file |-> File(<<1, 1>>, s, b), variables |-> None] :
        <<s, b>> \in UNION {{s} \X [1..Prod(s) -> RefTargets] : s \in CellShapes}}
    \cup {[file |-> File(<<1, 1>>, s, b), variables |-> Names(<<NameC>>)] :
        <<s, b>> \in UNION {{s} \X WideBufs(s) : s \in WideShapes}}
    \cup {[file |-> File(s, <<1>>, <<"text">>), variables |-> Names(<<NameX>>)] :
        s \in NumShapes}
    \cup {[file |-> File(<<1, 3>>, <<1>>, <<t>>), variables |-> v] :
        <<t, v>> \in {"text", "struct"} \X Selections}

(***************************************************************************)
(* The state.  pc is load_data's position; stack holds the frames of the  *)
(* decoders, innermost last; handles is the set of opened h5py files not  *)
(* yet released.  calls and obs only record what happened.                *)
(***************************************************************************)
NoObs ==
    [derefNull |-> FALSE, badKind |-> FALSE, nCell |-> 0, nReshape |-> 0,
     sliceReshape |-> FALSE, nestedReshape |-> FALSE, visits |-> <<>>,
     built |-> NoValue]

Init ==
    /\ \E in \in Inputs : file = in.file /\ variables = in.variables
    /\ pc = "start"
    /\ handles = {}
    /\ h_keys = <<>>
    /\ keys_sel = <<>>
    /\ idx = 0
    /\ data = <<>>
    /\ error = ""
    /\ stack = <<>>
    /\ calls = <<>>
    /\ obs = NoObs

TypeErrorNode == "TypeError: __data_to_dict expects a HDF5 data type input"
TypeErrorChr == "TypeError: only length-1 arrays can be converted to Python scalars"
TypeErrorIter == "TypeError: iteration over a 0-d array"
ValueErrorChr == "ValueError: chr() arg not in range(256)"
InvalidRef == "ValueError: Invalid HDF5 object reference"
IndexError == "IndexError: index out of range"
AttributeError == "AttributeError: object has no attribute 'append'"
RecursionError == "RuntimeError: maximum recursion depth exceeded"

\* string(seq): ''.join([chr(a) for a in seq]) over the first axis of the
\* array read from a dataset.  chr takes an array of one element only.
String(a) ==
    IF Len(a.shape) = 0 THEN [err |-> TypeErrorIter, val |-> NoValue]
    ELSE IF a.shape[1] > 0 /\ Prod(Tail(a.shape)) # 1
      THEN [err |-> TypeErrorChr, val |-> NoValue]
    ELSE IF \E i \in 1..Len(a.flat) : a.flat[i] \notin 0..255
      THEN [err |-> ValueErrorChr, val |-> NoValue]
    ELSE [err |-> "", val |-> Str(a.flat)]

\* A reading of a numeric dataset that swaps the axes end for end.
Value_Transposed(node) ==
    Array(Reverse(node.shape), [i \in 1..Len(node.buf) |-> Num(node.buf[i])])

\* hdf5_data.value of a numeric dataset.
Value(node) == Array(node.shape, [i \in 1..Len(node.buf) |-> Num(node.buf[i])])

\* hdf5_data.value of a character dataset: the codes.
Codes(node) == Array(node.shape, node.buf)

\* A listing that hides the names of the older format's kind instead.
Listed_Underscore(name) == name[1] # "_"

\* get_variable_list, HDF5 branch: the root's names that do not begin with '#'.
Listed(name) == name[1] # "#"

VarList ==
    LET names == [i \in 1..Len(Node("root").children) |-> Node("root").children[i].k]
    IN SelectSeq(names, Listed)

\* k in keys_sel
In(name, list) == \E i \in 1..Len(list) : list[i] = name

\* data_h[k]
Lookup(name) ==
    LET ch == Node("root").children
    IN ch[CHOOSE i \in 1..Len(ch) : ch[i].k = name].id

\* A lookup that raises nothing for a reference that points at nothing.
Deref_Silent(ref) == [err |-> "", id |-> ref]

\* data_file[ref]: h5py raises ValueError for a reference that points at nothing.
Deref(ref) == [err |-> IF ref = NullRef THEN InvalidRef ELSE "", id |-> ref]

\* A flag that lets every invocation reshape.
ReshapeData_Always(data_file_is_none) == TRUE

\* reshape_data: whether this invocation was given no data_file.
ReshapeData(data_file_is_none) == data_file_is_none

\* A reference array: the shape, the references in C order, and the place
\* each has in the dataset's buffer.
RefArray(shape, flat, pos) == [shape |-> shape, flat |-> flat, pos |-> pos]
NoArray == RefArray(<<>>, <<>>, <<>>)

\* hdf5_data[k]: index k (from 0) along the first axis.
Sub(arr, k) ==
    LET stride == Prod(Tail(arr.shape))
    IN RefArray(Tail(arr.shape),
                SubSeq(arr.flat, k * stride + 1, (k + 1) * stride),
                SubSeq(arr.pos, k * stride + 1, (k + 1) * stride))

\* The number of iterations of __cell_to_list's loop.
LoopCount(shape) ==
    IF Len(shape) > 1 THEN shape[Len(shape) - 1] ELSE shape[1]

Frame(fn, node, arr, top, slice, out) ==
    [fn |-> fn, node |-> node, arr |-> arr, top |-> top, slice |-> slice,
     k |-> 0, out |-> out, wait |-> ""]

D2DFrame(id) ==
    Frame("d2d", id, NoArray, FALSE, FALSE,
          IF Node(id).kind = "Group" THEN Dict(<<>>) ELSE NoValue)

C2LFrame(id, arr, data_file_is_none, slice) ==
    Frame("c2l", id, arr, ReshapeData(data_file_is_none), slice, List(<<>>))

Top == stack[Len(stack)]
Below == SubSeq(stack, 1, Len(stack) - 1)
Running(fn) == pc = "decode" /\ stack # <<>> /\ Top.fn = fn /\ Top.wait = ""

\* An exception: no decoder catches any, and load_data's except clause is the
\* one this code runs in, so the call ends with the error.  The traceback
\* keeps load_data's frame, and the file it opened, alive.
Raise(e) ==
    /\ pc' = "failed"
    /\ error' = e
    /\ stack' = <<>>
    /\ UNCHANGED <<file, variables, handles, h_keys, keys_sel, idx, data, calls>>

Goto(newstack) ==
    /\ stack' = newstack
    /\ UNCHANGED <<file, variables, pc, handles, h_keys, keys_sel, idx, data,
                   error, calls>>

\* A call under an interpreter without a recursion limit.
Call_NoLimit(wait, frame) == Goto(Below \o <<[Top EXCEPT !.wait = wait], frame>>)

\* A call: the caller waits for the value, the callee's frame is pushed.  The
\* interpreter refuses a call that would exceed its recursion limit.
Call(wait, frame) ==
    IF Len(stack) >= MaxFrames THEN Raise(RecursionError)
    ELSE Goto(Below \o <<[Top EXCEPT !.wait = wait], frame>>)

\* The loop of the frame on top moves on, with data_out as given.
Step(out) == Goto(Below \o <<[Top EXCEPT !.k = @ + 1, !.out = out]>>)

\* return val: the frame on top is popped and its caller takes the value.
Return(val) ==
    IF Len(stack) = 1
    THEN /\ data' = Append(data, Pair(h_keys[idx], val))
         /\ idx' = idx + 1
         /\ pc' = "loop"
         /\ stack' = <<>>
         /\ UNCHANGED <<file, variables, handles, h_keys, keys_sel, error, calls>>
    ELSE LET c == stack[Len(stack) - 1]
             rest == SubSeq(stack, 1, Len(stack) - 2)
             key == Node(c.node).children[c.k + 1].k
         IN CASE c.wait = "setkey" ->
                   Goto(rest \o <<[c EXCEPT !.out = Dict(Append(@.v, Pair(key, val))),
                                            !.k = @ + 1, !.wait = ""]>>)
              [] c.wait = "append" ->
                   Goto(rest \o <<[c EXCEPT !.out = List(Append(@.v, val)),
                                            !.k = @ + 1, !.wait = ""]>>)
              [] c.wait = "replace" ->
                   Goto(rest \o <<[c EXCEPT !.out = val, !.k = @ + 1, !.wait = ""]>>)
              [] c.wait = "result" ->
                   Goto(rest \o <<[c EXCEPT !.out = val, !.wait = "return"]>>)

(***************************************************************************)
(* load_data and get_variable_list.  The file is a version 7.3 file, so   *)
(* sio.loadmat raises NotImplementedError and the except branch runs.     *)
(***************************************************************************)
LoadData ==
    /\ pc = "start"
    /\ pc' = "list"
    /\ UNCHANGED <<file, variables, handles, h_keys, keys_sel, idx, data, error,
                   stack, calls, obs>>

\* get_variable_list: sio.loadmat raises again and the file is opened.
GetVariableList ==
    /\ pc = "list"
    /\ handles' = handles \cup {"get_variable_list"}
    /\ pc' = "listing"
    /\ UNCHANGED <<file, variables, h_keys, keys_sel, idx, data, error, stack,
                   calls, obs>>

\* return var_list: the File object is a local the code never closes; it is
\* released as the function returns and the last reference to it goes.
ListReturn ==
    /\ pc = "listing"
    /\ h_keys' = VarList
    /\ handles' = handles \ {"get_variable_list"}
    /\ pc' = "open"
    /\ UNCHANGED <<file, variables, keys_sel, idx, data, error, stack, calls, obs>>

OpenFile ==
    /\ pc = "open"
    /\ keys_sel' = IF variables.none THEN h_keys ELSE variables.names
    /\ handles' = handles \cup {"load_data"}
    /\ data' = <<>>
    /\ idx' = 1
    /\ pc' = "loop"
    /\ UNCHANGED <<file, variables, h_keys, error, stack, calls, obs>>

LoopSkip ==
    /\ pc = "loop"
    /\ idx <= Len(h_keys)
    /\ ~In(h_keys[idx], keys_sel)
    /\ idx' = idx + 1
    /\ UNCHANGED <<file, variables, pc, handles, h_keys, keys_sel, data, error,
                   stack, calls, obs>>

LoopDecode ==
    /\ pc = "loop"
    /\ idx <= Len(h_keys)
    /\ In(h_keys[idx], keys_sel)
    /\ pc' = "decode"
    /\ stack' = <<D2DFrame(Lookup(h_keys[idx]))>>
    /\ calls' = Append(calls, h_keys[idx])
    /\ obs' = NoObs
    /\ UNCHANGED <<file, variables, handles, h_keys, keys_sel, idx, data, error>>

\* return data: load_data's frame goes, and with it the last reference to
\* the File it opened.
LoadReturn ==
    /\ pc = "loop"
    /\ idx > Len(h_keys)
    /\ pc' = "done"
    /\ handles' = handles \ {"load_data"}
    /\ UNCHANGED <<file, variables, h_keys, keys_sel, idx, data, error, stack,
                   calls, obs>>

(***************************************************************************)
(* __data_to_dict                                                          *)
(***************************************************************************)
D2DGroupNext ==
    /\ Running("d2d")
    /\ Node(Top.node).kind = "Group"
    /\ Top.k < Len(Node(Top.node).children)
    /\ Call("setkey", D2DFrame(Node(Top.node).children[Top.k + 1].id))
    /\ UNCHANGED obs

D2DGroupReturn ==
    /\ Running("d2d")
    /\ Node(Top.node).kind = "Group"
    /\ Top.k = Len(Node(Top.node).children)
    /\ Return(Top.out)
    /\ UNCHANGED obs

D2DCell ==
    /\ Running("d2d")
    /\ Node(Top.node).kind = "Dataset"
    /\ Node(Top.node).object
    /\ LET n == Node(Top.node)
           arr == RefArray(n.shape, n.buf, [i \in 1..Len(n.buf) |-> i])
       IN Call("result", C2LFrame(Top.node, arr, TRUE, FALSE))
    /\ obs' = [obs EXCEPT !.nCell = @ + 1]

D2DCellReturn ==
    /\ pc = "decode"
    /\ stack # <<>>
    /\ Top.fn = "d2d"
    /\ Top.wait = "return"
    /\ Return(Top.out)
    /\ UNCHANGED obs

D2DString ==
    /\ Running("d2d")
    /\ Node(Top.node).kind = "Dataset"
    /\ ~Node(Top.node).object
    /\ Node(Top.node).int_decode
    /\ LET r == String(Codes(Node(Top.node)))
       IN IF r.err # "" THEN Raise(r.err) ELSE Return(r.val)
    /\ UNCHANGED obs

D2DNumeric ==
    /\ Running("d2d")
    /\ Node(Top.node).kind = "Dataset"
    /\ ~Node(Top.node).object
    /\ ~Node(Top.node).int_decode
    /\ Return(Ndarray2List(Squeeze(Value(Node(Top.node)))))
    /\ UNCHANGED obs

D2DTypeError ==
    /\ Running("d2d")
    /\ Node(Top.node).kind \notin {"Group", "Dataset"}
    /\ Raise(TypeErrorNode)
    /\ obs' = [obs EXCEPT !.badKind = TRUE]

(***************************************************************************)
(* __cell_to_list.  The frame's arr is hdf5_data: the dataset (top) or a  *)
(* slice of it; out is data_out.                                           *)
(***************************************************************************)
Rank == Len(Top.arr.shape)
Looping == Running("c2l") /\ Top.k < LoopCount(Top.arr.shape)
Ref == Top.arr.flat[Top.k + 1]
Target == Node(Deref(Ref).id)

\* The lookup of the reference at hand is recorded: its place, for the
\* dataset 'c', and whether it points at nothing.
Visit ==
    [obs EXCEPT !.visits = IF Top.node = "c" THEN Append(@, Top.arr.pos[Top.k + 1])
                           ELSE @,
                !.derefNull = @ \/ Ref = NullRef]

\* Lines 145-147: one recursive call per index below shape[len - 2], each on
\* hdf5_data[k], which indexes the first axis.
C2LSlice ==
    /\ Looping
    /\ Rank > 1
    /\ IF Top.k >= Top.arr.shape[1] THEN Raise(IndexError)
       ELSE Call("append", C2LFrame(Top.node, Sub(Top.arr, Top.k), FALSE, TRUE))
    /\ UNCHANGED obs

C2LDangling ==
    /\ Looping
    /\ Rank <= 1
    /\ Deref(Ref).err # ""
    /\ Raise(Deref(Ref).err)
    /\ obs' = Visit

\* Lines 152-153: a character dataset of rank > 1 is appended as a string.
C2LString ==
    /\ Looping
    /\ Rank <= 1
    /\ Deref(Ref).err = ""
    /\ Target.kind = "Dataset"
    /\ Len(Target.shape) > 1
    /\ Target.int_decode
    /\ IF ~IsList(Top.out) THEN Raise(AttributeError)
       ELSE LET r == String(Codes(Target))
            IN IF r.err # "" THEN Raise(r.err)
               ELSE Step(List(Append(Top.out.v, r.val)))
    /\ obs' = Visit

\* Line 155: data_out = __data_to_dict(...): any other dataset of rank > 1
\* takes the place of data_out.
C2LDataset ==
    /\ Looping
    /\ Rank <= 1
    /\ Deref(Ref).err = ""
    /\ Target.kind = "Dataset"
    /\ Len(Target.shape) > 1
    /\ ~Target.int_decode
    /\ Call("replace", D2DFrame(Deref(Ref).id))
    /\ obs' = Visit

\* Line 159: a dataset of rank <= 1 is an empty matrix.
C2LEmpty ==
    /\ Looping
    /\ Rank <= 1
    /\ Deref(Ref).err = ""
    /\ Target.kind = "Dataset"
    /\ Len(Target.shape) <= 1
    /\ IF ~IsList(Top.out) THEN Raise(AttributeError)
       ELSE Step(List(Append(Top.out.v, List(<<>>))))
    /\ obs' = Visit

\* Line 161: data_out.append(__data_to_dict(...)) for a group.
C2LGroup ==
    /\ Looping
    /\ Rank <= 1
    /\ Deref(Ref).err = ""
    /\ Target.kind = "Group"
    /\ IF ~IsList(Top.out) THEN Raise(AttributeError)
       ELSE Call("append", D2DFrame(Deref(Ref).id))
    /\ obs' = Visit

\* Neither branch of lines 150 and 160 is taken: nothing is appended.
C2LSkip ==
    /\ Looping
    /\ Rank <= 1
    /\ Deref(Ref).err = ""
    /\ Target.kind \notin {"Dataset", "Group"}
    /\ Step(Top.out)
    /\ obs' = [Visit EXCEPT !.badKind = TRUE]

\* Whether a cell decoder invocation encloses the one on top.
Nested == \E i \in 1..(Len(stack) - 1) : stack[i].fn = "c2l"

\* Lines 163-170: the reshape, made when reshape_data is set, and the return.
C2LFinish ==
    /\ Running("c2l")
    /\ Top.k = LoopCount(Top.arr.shape)
    /\ IF Top.top
       THEN /\ \E r \in AsArray(Top.out) :
                 IF r.err # "" THEN Raise(r.err)
                 ELSE IF Prod(Top.arr.shape) = Prod(r.a.shape)
                   THEN Return(Ndarray2List(ReshapeSqueeze(r.a, Top.arr.shape)))
                 ELSE Return(Top.out)
            /\ obs' = [obs EXCEPT !.built = Top.out,
                                  !.nReshape = @ + 1,
                                  !.sliceReshape = @ \/ Top.slice,
                                  !.nestedReshape = @ \/ Nested]
       ELSE /\ Return(Top.out)
            /\ UNCHANGED obs

Next ==
    \/ LoadData \/ GetVariableList \/ ListReturn \/ OpenFile
    \/ LoopSkip \/ LoopDecode \/ LoadReturn
    \/ D2DGroupNext \/ D2DGroupReturn \/ D2DCell \/ D2DCellReturn
    \/ D2DString \/ D2DNumeric \/ D2DTypeError
    \/ C2LSlice \/ C2LDangling \/ C2LString \/ C2LDataset \/ C2LEmpty
    \/ C2LGroup \/ C2LSkip \/ C2LFinish

Spec == Init /\ [][Next]_vars

\* load_data may be called and left to run: every step that can be taken is
\* taken in the end (one thread, no suspension points).
FairSpec == Spec /\ WF_vars(Next)

(***************************************************************************)
(* Properties                                                              *)
(***************************************************************************)
RECURSIVE ListShape(_)
ListShape(val) ==
    IF IsList(val) /\ Len(val.v) > 0 THEN <<Len(val.v)>> \o ListShape(val.v[1])
    ELSE IF IsList(val) THEN <<0>>
    ELSE <<>>

RECURSIVE Regular(_)
Regular(val) ==
    IsList(val) =>
        \A i \in 1..Len(val.v) :
            Regular(val.v[i]) /\ ListShape(val.v[i]) = ListShape(val.v[1])

RECURSIVE Leaves(_)
Leaves(val) ==
    IF IsList(val) THEN Concat([i \in 1..Len(val.v) |-> Leaves(val.v[i])])
    ELSE <<val>>

SameSeq(a, b) == Len(a) = Len(b) /\ \A i \in 1..Len(a) : a[i] = b[i]

NoUnitDim(shape) == \A i \in 1..Len(shape) : shape[i] # 1

Terminated == pc \in {"done", "failed"}

\* The decode of the top-level node with this name has just produced its
\* value: the walker's frame for it is the only one left and holds it.
Completed(id) ==
    pc = "decode" /\ Len(stack) = 1 /\ Top.node = id /\ Top.wait = "return"

Shown(shape) ==
    LET empty == {i \in 1..Len(shape) : shape[i] = 0}
    IN IF empty = {} THEN shape
       ELSE SubSeq(shape, 1, CHOOSE i \in empty : \A j \in empty : i <= j)

C2_ReshapedOrFlat ==
    /\ error # SeqError
    /\ Completed("c") =>
         IF Len(Leaves(obs.built)) = Prod(file.cShape)
         THEN Top.out = Nest(SelectSeq(Reverse(file.cShape), LAMBDA d : d # 1),
                             Leaves(obs.built))
         ELSE Top.out = obs.built

\* C3 as stated: when load_data has returned or failed, no file it or
\* get_variable_list opened is still open.
C3_HandlesClosedAtExit == Terminated => handles = {}

\* C4: once a reference that points at nothing has been looked up, the call
\* has failed with h5py's error for it; no value is returned.
C4_DanglingFails == obs.derefNull => (pc = "failed" /\ error = InvalidRef)

C4_Witness ==
    /\ obs.derefNull
    /\ pc = "failed"
    /\ error = InvalidRef
    /\ Len(obs.visits) >= 2

\* C5 as stated: once a node that is neither a Group nor a Dataset has been
\* reached, the decode has failed with the TypeError of __data_to_dict.
C5_BadKindFails == obs.badKind => (pc = "failed" /\ error = TypeErrorNode)

\* The names of the root's children, and whether a name is to be decoded.
RootNames == [i \in 1..Len(Node("root").children) |-> Node("root").children[i].k]
Wanted(name) ==
    /\ name[1] # "#"
    /\ variables.none \/ \E i \in 1..Len(variables.names) : variables.names[i] = name

\* C6: the walker is invoked only for names of the root that do not begin
\* with '#' and are selected, once each; and the mapping load_data returns
\* has exactly those names as keys, in the root's order.
C6_SelectedKeys ==
    /\ \A i \in 1..Len(calls) : Wanted(calls[i])
    /\ \A i, j \in 1..Len(calls) : i # j => calls[i] # calls[j]
    /\ pc = "done" =>
         /\ [i \in 1..Len(data) |-> data[i].k] = SelectSeq(RootNames, Wanted)
         /\ calls = SelectSeq(RootNames, Wanted)
         /\ \A i \in 1..Len(data) :
              (data[i].k = NameX /\ SameSeq(file.xShape, <<1, 3>>))
                 => data[i].val = List(<<Num(1), Num(2), Num(3)>>)

C6_Witness ==
    /\ pc = "done"
    /\ ~variables.none
    /\ Len(variables.names) = 2
    /\ Len(data) = 1
    /\ SelectSeq(RootNames, Wanted) # RootNames

\* The decoded value of a node that references point at.
Expected(id) ==
    CASE id = "scalar" -> Num(5)
      [] id = "row" -> List(<<Num(1), Num(2)>>)
      [] id = "text" -> Str(<<97, 98>>)
      [] id = "empty" -> List(<<>>)
      [] id = "struct" ->
           Dict(<<Pair(NameF, Num(5)), Pair(NameG, Str(<<97, 98>>))>>)
      [] id = "cell" -> List(<<Str(<<97, 98>>), Str(<<97, 98>>)>>)
      [] OTHER -> NoValue

\* C7 as stated: in a flat run of references, after k references to Datasets
\* and Groups have been handled, data_out is a list of exactly k slots, and
\* slot i holds the decoded value of the i-th referenced node.
C7_OneSlotPerReference ==
    \A d \in 1..Len(stack) :
        LET f == stack[d] IN
        (/\ f.fn = "c2l"
         /\ Len(f.arr.shape) <= 1
         /\ \A i \in 1..f.k : Node(f.arr.flat[i]).kind \in {"Dataset", "Group"})
            => /\ IsList(f.out)
               /\ Len(f.out.v) = f.k
               /\ \A i \in 1..f.k : f.out.v[i] = Expected(f.arr.flat[i])

\* C8 as stated: no index the cell decoder uses is out of the bounds of the
\* dimension it is applied to, and when the decode of the dataset is
\* complete every reference of it has been visited exactly once.
C8_EveryReferenceOnce ==
    /\ error # IndexError
    /\ Completed("c") =>
         /\ Len(obs.visits) = Prod(file.cShape)
         /\ \A p \in 1..Prod(file.cShape) :
              \E i \in 1..Len(obs.visits) : obs.visits[i] = p

\* C9 as stated: during one top-level decode the reshape is attempted at most
\* once, and only by the outermost invocation of the cell decoder.
C9_ReshapeOnlyOutermost == obs.nReshape <= 1 /\ ~obs.nestedReshape

\* C9 amended: the reshape is attempted once for every reference array that
\* __data_to_dict hands to the cell decoder (the top-level one, and each one
\* reached through a reference or a group), in the invocation on the whole
\* dataset; an invocation on a slice never attempts it.
C9_ReshapePerDataset ==
    /\ ~obs.sliceReshape
    /\ obs.nReshape <= obs.nCell
    /\ (pc = "decode" /\ Len(stack) = 1 /\ Top.wait = "return")
          => obs.nReshape = obs.nCell

C9_Witness ==
    /\ Completed("c")
    /\ obs.nReshape >= 2
    /\ obs.nestedReshape

====
